---- MODULE Spec2Model ----
(***************************************************************************)
(* Vertex Aligner & Planarizer (src/__init__.py).                          *)
(*                                                                         *)
(* State: the edit mesh (vertex coordinates and selection flags), the      *)
(* context mode, the two scene-attached reference records axis_aligner and *)
(* plane_aligner, whether the addon is registered, the number of draw      *)
(* handlers installed, and the last operation invoked together with what   *)
(* it returned.  One action per operator; an action covers poll and        *)
(* execute.                                                                *)
(* Three more variables record the history the properties speak of: the    *)
(* positions before the last step, whether the last step repeated the      *)
(* operator that had just finished, and which operators were so repeated.  *)
(*                                                                         *)
(* Numbers.  Coordinates are single-precision floats, as mathutils.Vector  *)
(* holds them: a float is <<m, e>>, standing for m * 2^e with m odd, or    *)
(* <<0, 0>>; it has at most Significand bits.  Vector +, -, cross and      *)
(* float * Vector round every operation to the nearest float, ties to      *)
(* even.  Vector.dot and the length in Vector.normalized are accumulated   *)
(* in double precision, as the library does.  Floats underflow gradually   *)
(* (every float is a multiple of 2^MinExponent); exponents have no upper   *)
(* limit: overflow to infinity and NaN do not occur on the meshes here.    *)
(*                                                                         *)
(* Records.  register() binds Scene.axis_aligner and Scene.plane_aligner   *)
(* to the classes themselves, whose properties are declared with "=".  A   *)
(* record is therefore the map of the attributes assigned so far; an       *)
(* attribute not yet assigned reads as the _PropertyDeferred object of its *)
(* declaration, which is truthy and equal to neither True nor False.       *)
(* unregister() deletes the two Scene attributes and leaves the classes,   *)
(* with what was assigned to them, and the draw handler in place; an       *)
(* operator that then reads context.scene.axis_aligner or plane_aligner    *)
(* raises AttributeError, which is the result "ERROR".                     *)
(***************************************************************************)
EXTENDS Integers, Sequences, FiniteSets, TLC

\* ---------------------------------------------------------------- bounds
\* The number of times vertices are moved (align or planarize finishing)
\* that the model follows; on top of them each of the two operators may be
\* repeated once right after it has finished.
MaxMoves == 2

\* The number of draw handlers installed that the model follows: register()
\* adds one each time it runs.
MaxHandlers == 2

\* ------------------------------------------- single-precision arithmetic
\* The number of significand bits of a single-precision float.
Significand == 24

Abs(x) == IF x < 0 THEN -x ELSE x

Sign(x) == IF x < 0 THEN -1 ELSE 1

\* The powers of two 2^0 .. 2^30.
RECURSIVE PowersUpTo(_)
PowersUpTo(n) ==
    IF n = 0 THEN <<1>>
    ELSE LET p == PowersUpTo(n - 1) IN Append(p, 2 * p[n])

Powers == PowersUpTo(30)

Pow2(n) == Powers[n + 1]

\* The number of bits of the natural number n (0 for 0).
RECURSIVE BitLenOf(_)
BitLenOf(n) == IF n = 0 THEN 0 ELSE 1 + BitLenOf(n \div 2)

\* The number of trailing zero bits of the positive number n.
RECURSIVE TrailingZerosOf(_)
TrailingZerosOf(n) == IF n % 2 = 1 THEN 0 ELSE 1 + TrailingZerosOf(n \div 2)

\* Both for one byte, tabulated.
ByteBitLen == [n \in 0..255 |-> BitLenOf(n)]

ByteTrailingZeros == [n \in 1..255 |-> TrailingZerosOf(n)]

BitLen(n) ==
    IF n < 65536
    THEN IF n < 256 THEN ByteBitLen[n] ELSE 8 + ByteBitLen[n \div 256]
    ELSE IF n < 16777216 THEN 16 + ByteBitLen[n \div 65536]
         ELSE 24 + ByteBitLen[n \div 16777216]

TrailingZeros(n) ==
    IF n % 256 # 0 THEN ByteTrailingZeros[n % 256]
    ELSE IF n % 65536 # 0 THEN 8 + ByteTrailingZeros[(n \div 256) % 256]
    ELSE IF n % 16777216 # 0 THEN 16 + ByteTrailingZeros[(n \div 65536) % 256]
    ELSE 24 + ByteTrailingZeros[n \div 16777216]

\* The number m * 2^e as a float <<m, e>> with m odd (or <<0, 0>>).
Canon(m, e) ==
    IF m = 0 THEN <<0, 0>>
    ELSE LET z == TrailingZeros(Abs(m))
         IN  << m \div Pow2(z), e + z >>

\* The position of the leading bit of a non-zero float: |f| < 2^Top(f).
Top(f) == f[2] + BitLen(Abs(f[1]))

\* The exponent of the smallest positive float, 2^-149: every float is a
\* multiple of it (gradual underflow).
MinExponent == -149

Max(x, y) == IF x >= y THEN x ELSE y

\* Rounding to float32: the float nearest to m * 2^e (|m| < 2^31), ties to
\* even, where sticky says that the exact value lies a little further from
\* zero than m * 2^e (by less than 2^e).  k is the number of bits dropped.
Round(m, e, sticky) ==
    LET a == Abs(m)
        k == Max(BitLen(a) - Significand, MinExponent - e)
    IN  IF a = 0 \/ k <= 0 THEN Canon(m, e)
        ELSE IF k > 30
        THEN IF k = 31 /\ (a > Pow2(30) \/ (a = Pow2(30) /\ sticky))
             THEN << Sign(m), e + k >>
             ELSE <<0, 0>>
        ELSE LET q    == a \div Pow2(k)
                 r    == a % Pow2(k)
                 half == Pow2(k - 1)
                 up   == r > half \/ (r = half /\ (sticky \/ q % 2 = 1))
             IN  Canon(Sign(m) * (IF up THEN q + 1 ELSE q), e + k)

\* float(n) for an integer of at most 24 bits.
Float(n) == Canon(n, 0)

Neg(a) == << -a[1], a[2] >>

\* a + b rounded to float32.
FAdd(a, b) ==
    IF a[1] = 0 THEN b
    ELSE IF b[1] = 0 THEN a
    ELSE LET x   == IF Top(a) >= Top(b) THEN a ELSE b
             y   == IF Top(a) >= Top(b) THEN b ELSE a
             up  == 29 - BitLen(Abs(x[1]))
             X   == x[1] * Pow2(up)
             ex  == x[2] - up
             d   == y[2] - ex
             Y   == IF d >= 0 THEN y[1] * Pow2(d)
                    ELSE IF -d >= 30 THEN 0
                    ELSE Sign(y[1]) * (Abs(y[1]) \div Pow2(-d))
             st  == d < 0 /\ (-d >= 30 \/ Abs(y[1]) % Pow2(-d) # 0)
             S   == X + Y
         IN  IF st /\ Sign(y[1]) # Sign(x[1])
             THEN Round(Sign(x[1]) * (Abs(S) - 1), ex, TRUE)
             ELSE Round(S, ex, st)

\* a - b rounded to float32.
FSub(a, b) == FAdd(a, Neg(b))

\* a * b rounded to float32.
FMul(a, b) ==
    LET x  == Abs(a[1])
        y  == Abs(b[1])
        s  == Sign(a[1]) * Sign(b[1])
        e  == a[2] + b[2]
    IN  IF x = 0 \/ y = 0 THEN <<0, 0>>
        ELSE IF BitLen(x) + BitLen(y) <= 30 THEN Round(s * x * y, e, FALSE)
        ELSE LET x1  == x \div 4096
                 x0  == x % 4096
                 y1  == y \div 4096
                 y0  == y % 4096
                 mid == x1 * y0 + x0 * y1
                 L   == x0 * y0 + (mid % 4096) * 4096
                 lo  == L % 16777216
                 hi  == x1 * y1 + mid \div 4096 + L \div 16777216
                 sh  == BitLen(hi) + 24 - 30
             IN  Round(s * (hi * Pow2(24 - sh) + lo \div Pow2(sh)),
                       e + sh, lo % Pow2(sh) # 0)

\* Long division: the quotient bits of rem / den appended to acc until acc
\* has 27 bits; <<acc, steps, remainder>>.
RECURSIVE DivBits(_, _, _, _)
DivBits(rem, den, acc, k) ==
    IF acc >= 67108864 THEN <<acc, k, rem>>
    ELSE IF 2 * rem >= den
         THEN DivBits(2 * rem - den, den, 2 * acc + 1, k + 1)
         ELSE DivBits(2 * rem, den, 2 * acc, k + 1)

\* a / b rounded to float32 (a, b non-zero).
FDiv(a, b) ==
    LET x == Abs(a[1])
        y == Abs(b[1])
        q == DivBits(x % y, y, x \div y, 0)
    IN  Round(Sign(a[1]) * Sign(b[1]) * q[1], a[2] - b[2] - q[2], q[3] # 0)

\* ------------------------------------------- double-precision arithmetic
\* mathutils computes Vector.dot and the length inside Vector.normalized in
\* double precision.  A double is <<s, w, e>>, standing for s * w * 2^e with
\* the sign s and the natural number w of at most DoubleSignificand bits.

\* The number of significand bits of a double.
DoubleSignificand == 53

\* A natural number below 2^58 is held in two limbs: <<h, l>> stands for
\* h * 2^LimbBits + l with l < 2^LimbBits.
LimbBits == 28

Limb == Pow2(LimbBits)

Wide(n) == << n \div Limb, n % Limb >>

WBitLen(w) == IF w[1] > 0 THEN LimbBits + BitLen(w[1]) ELSE BitLen(w[2])

WAdd(a, b) ==
    LET l == a[2] + b[2]
    IN  << a[1] + b[1] + l \div Limb, l % Limb >>

\* a - b for a >= b.
WSub(a, b) ==
    LET l == a[2] - b[2]
    IN  IF l < 0 THEN << a[1] - b[1] - 1, l + Limb >>
        ELSE << a[1] - b[1], l >>

WLess(a, b) == a[1] < b[1] \/ (a[1] = b[1] /\ a[2] < b[2])

\* w * 2^k, which is below 2^58.
WShl(w, k) ==
    IF k >= LimbBits
    THEN << (w[1] * Limb + w[2]) * Pow2(k - LimbBits), 0 >>
    ELSE LET cut == Pow2(LimbBits - k)
         IN  << w[1] * Pow2(k) + w[2] \div cut, (w[2] % cut) * Pow2(k) >>

\* <<w \div 2^k, whether a bit was shifted out>>.
WShr(w, k) ==
    IF k >= 2 * LimbBits + 2 THEN << <<0, 0>>, w # <<0, 0>> >>
    ELSE IF k >= LimbBits
    THEN LET c == Pow2(k - LimbBits)
         IN  << Wide(w[1] \div c), w[2] # 0 \/ w[1] % c # 0 >>
    ELSE LET c == Pow2(k)
         IN  << << w[1] \div c, (w[1] % c) * Pow2(LimbBits - k) + w[2] \div c >>,
                w[2] % c # 0 >>

\* Rounding by dropping the last k bits (k > 0): <<q, e + k>> with q * 2^(e + k)
\* the multiple of 2^(e + k) nearest to w * 2^e, ties to even, where sticky
\* says that the exact value is a little larger than w * 2^e (by less than
\* 2^e).
WRound(k, w, e, sticky) ==
    LET g  == WShr(w, k - 1)
        q  == WShr(g[1], 1)[1]
        up == /\ g[1][2] % 2 = 1
              /\ g[2] \/ sticky \/ q[2] % 2 = 1
    IN  << IF up THEN WAdd(q, <<0, 1>>) ELSE q, e + k >>

DZero == << 1, <<0, 0>>, 0 >>

\* (double)f for a float f.
Double(f) == << Sign(f[1]), <<0, Abs(f[1])>>, f[2] >>

\* (float)x for a double x.
Single(x) ==
    LET k == Max(WBitLen(x[2]) - Significand, MinExponent - x[3])
        r == WRound(k, x[2], x[3], FALSE)
    IN  IF k <= 0 THEN Canon(x[1] * x[2][2], x[3])
        ELSE Canon(x[1] * r[1][2], r[2])

\* The double nearest to s * w * 2^e.
DRound(s, w, e, sticky) ==
    LET k == WBitLen(w) - DoubleSignificand
        r == WRound(k, w, e, sticky)
    IN  IF k <= 0 THEN <<s, w, e>>
        ELSE IF WBitLen(r[1]) > DoubleSignificand
        THEN << s, WShr(r[1], 1)[1], r[2] + 1 >>
        ELSE << s, r[1], r[2] >>

\* x + y rounded to double.
DAdd(x, y) ==
    IF x[2] = <<0, 0>> THEN y
    ELSE IF y[2] = <<0, 0>> THEN x
    ELSE LET xtop == x[3] + WBitLen(x[2])
             ytop == y[3] + WBitLen(y[2])
             a    == IF xtop >= ytop THEN x ELSE y
             b    == IF xtop >= ytop THEN y ELSE x
             up   == DoubleSignificand + 3 - WBitLen(a[2])
             A    == WShl(a[2], up)
             ea   == a[3] - up
             d    == b[3] - ea
             sh   == IF d >= 0 THEN << WShl(b[2], d), FALSE >>
                     ELSE WShr(b[2], -d)
             B    == sh[1]
             st   == sh[2]
         IN  IF a[1] = b[1] THEN DRound(a[1], WAdd(A, B), ea, st)
             ELSE IF A = B THEN DZero
             ELSE IF WLess(A, B) THEN DRound(b[1], WSub(B, A), ea, FALSE)
             ELSE IF st THEN DRound(a[1], WSub(WSub(A, B), <<0, 1>>), ea, TRUE)
             ELSE DRound(a[1], WSub(A, B), ea, FALSE)

\* (double)f * (double)f, which is exact.
DSquare(f) ==
    LET m   == Abs(f[1])
        x1  == m \div 4096
        x0  == m % 4096
        mid == 2 * x1 * x0
        L   == x0 * x0 + (mid % 4096) * 4096
        lo  == L % 16777216
        hi  == x1 * x1 + mid \div 4096 + L \div 16777216
    IN  IF m = 0 THEN DZero
        ELSE << 1, << hi \div 16, (hi % 16) * 16777216 + lo >>, 2 * f[2] >>

\* Pair i of the bits of w: bits 2i+1 and 2i.
WPair(w, i) ==
    IF 2 * i < LimbBits THEN (w[2] \div Pow2(2 * i)) % 4
    ELSE (w[1] \div Pow2(2 * i - LimbBits)) % 4

\* One step of the digit-by-digit square root: <<remainder, root>> after
\* the next pair of bits of the radicand.
DSqrtStep(st, pair) ==
    LET r4 == WAdd(WShl(st[1], 2), <<0, pair>>)
        t  == WAdd(WShl(st[2], 2), <<0, 1>>)
    IN  IF WLess(r4, t) THEN << r4, WShl(st[2], 1) >>
        ELSE << WSub(r4, t), WAdd(WShl(st[2], 1), <<0, 1>>) >>

\* n steps of it from <<remainder, root>> st, over the pairs of bits of w
\* from pair i down and zero pairs after pair 0.  Once the remainder is zero
\* and the pairs of w are used up, the bits of the root still to come are 0.
RECURSIVE DSqrtBits(_, _, _, _)
DSqrtBits(w, i, st, n) ==
    IF n = 1 THEN DSqrtStep(st, IF i >= 0 THEN WPair(w, i) ELSE 0)
    ELSE LET h == n \div 2
             a == DSqrtBits(w, i, st, h)
         IN  IF a[1] = <<0, 0>> /\ i - h < 0
             THEN << a[1], WShl(a[2], n - h) >>
             ELSE DSqrtBits(w, i - h, a, n - h)

\* sqrt(x) rounded to double (x > 0): DoubleSignificand + 1 bits of the root
\* are computed and rounded.
DSqrt(x) ==
    LET odd == x[3] % 2 = 1
        w   == IF odd THEN WShl(x[2], 1) ELSE x[2]
        e   == IF odd THEN x[3] - 1 ELSE x[3]
        n   == DoubleSignificand + 1
        top == (WBitLen(w) - 1) \div 2
        q   == DSqrtBits(w, top, << <<0, 0>>, <<0, 0>> >>, n)
    IN  DRound(1, q[2], (e \div 2) - (n - (top + 1)), q[1] # <<0, 0>>)

\* The double 1.0e-35, below which normalize_vn_vn takes a squared length
\* for zero.
MinLengthSquared == << 1, <<27875931, 133724687>>, -169 >>

\* x > y for doubles x >= 0 and y > 0.
DGreater(x, y) ==
    LET xtop == x[3] + WBitLen(x[2])
        ytop == y[3] + WBitLen(y[2])
    IN  /\ x[2] # <<0, 0>>
        /\ \/ xtop > ytop
           \/ /\ xtop = ytop
              /\ WLess(WShl(y[2], DoubleSignificand - WBitLen(y[2])),
                       WShl(x[2], DoubleSignificand - WBitLen(x[2])))

Zero == <<0, 0>>

One == <<1, 0>>

\* Vector((x, y, z)) with integer components.
Vector(x, y, z) == << Float(x), Float(y), Float(z) >>

ZeroVector == Vector(0, 0, 0)

\* Vector + Vector, Vector - Vector.
VAdd(a, b) == [k \in 1..3 |-> FAdd(a[k], b[k])]
VSub(a, b) == [k \in 1..3 |-> FSub(a[k], b[k])]

\* Vector.dot(Vector), a Python float: the products are taken in single
\* precision and added up in double precision, last component first.
dot(a, b) ==
    DAdd(DAdd(Double(FMul(a[3], b[3])), Double(FMul(a[2], b[2]))),
         Double(FMul(a[1], b[1])))

\* float * Vector: the Python float is cast to single precision first.
scale(s, a) == LET f == Single(s) IN [k \in 1..3 |-> FMul(f, a[k])]

\* Vector.cross(Vector).
cross(a, b) ==
    << FSub(FMul(a[2], b[3]), FMul(a[3], b[2])),
       FSub(FMul(a[3], b[1]), FMul(a[1], b[3])),
       FSub(FMul(a[1], b[2]), FMul(a[2], b[1])) >>

\* The squared length of a, in double precision, last component first.
len_squared(a) == DAdd(DAdd(DSquare(a[3]), DSquare(a[2])), DSquare(a[1]))

\* normalized() left out: the vector is used as it is.
normalized_missing(a) == a

\* The single-precision reciprocal 1.0f / (float)sqrt(d) of the length, for
\* the squared length d.
reciprocal_length(d) == FDiv(One, Single(DSqrt(d)))

\* Every component of a times the float r.
mul_vn_fl(a, r) == [k \in 1..3 |-> FMul(a[k], r)]

\* normalize_vn_vn for the squared length d of a: a squared length that is
\* not above 1.0e-35 gives the zero vector.
normalize_vn_vn(a, d) ==
    IF DGreater(d, MinLengthSquared) THEN mul_vn_fl(a, reciprocal_length(d))
    ELSE ZeroVector

\* Vector.normalized(): the vector times the single-precision reciprocal of
\* its length, the squared length and its square root taken in double
\* precision.
normalized(a) == normalize_vn_vn(a, len_squared(a))

\* ------------------------------------------------------------ the state
VARIABLES
    mode,           \* context.mode
    co,             \* bm.verts[i].co, the position of vertex i
    select,         \* bm.verts[i].select
    axis_aligner,   \* context.scene.axis_aligner: the attributes assigned
    plane_aligner,  \* context.scene.plane_aligner: the attributes assigned
    op,             \* the operator invoked last ("host" for an edit by the user)
    result,         \* what it returned
    moves,          \* how many times align or planarize have finished
    registered,     \* Scene.axis_aligner and Scene.plane_aligner exist
    draw_handlers,  \* how many times draw_axis is installed as a draw handler
    co_before,      \* the positions before the last step
    rerun,          \* the last step repeated the operator that had just finished
    repeated        \* the operators that have been repeated in this way

vars == <<mode, co, select, axis_aligner, plane_aligner, op, result, moves,
          registered, draw_handlers, co_before, rerun, repeated>>

\* The edit meshes the model starts from, vertices in index order.
Meshes ==
    { << Vector(0, 0, 0), Vector(2, 0, 0), Vector(1, 1, 1), Vector(1, 0, 1) >>,
      << Vector(0, 0, 0), Vector(0, 0, 0), Vector(1, 0, 0), Vector(1, 2, 0) >> }

Verts == 1..4

\* The selections the user makes.
Selections == { {}, {3}, {1, 2}, {3, 4}, {1, 2, 3}, {1, 2, 3, 4} }

\* The properties VertexAxisAligner declares, each a _PropertyDeferred.
VertexAxisAligner == {"axis_defined", "is_displayed", "p1", "p2", "axis"}

\* The properties VertexPlaneAligner declares, each a _PropertyDeferred.
VertexPlaneAligner == {"plane_defined", "p1", "p2", "p3", "normal"}

\* A class none of whose attributes has been assigned.
NoneAssigned == [a \in {} |-> FALSE]

\* o.n = val
setattr(o, n, val) ==
    [a \in DOMAIN o \cup {n} |-> IF a = n THEN val ELSE o[a]]

\* o.n is True, o.n == True: false of a _PropertyDeferred.
is_True(o, n) == n \in DOMAIN o /\ o[n] = TRUE

\* not o.n: a _PropertyDeferred is truthy.
py_not(o, n) == IF n \in DOMAIN o THEN ~o[n] ELSE FALSE

Init ==
    /\ mode = "EDIT_MESH"
    /\ co \in Meshes
    /\ select = [i \in Verts |-> FALSE]
    /\ axis_aligner = NoneAssigned
    /\ plane_aligner = NoneAssigned
    /\ op = "none"
    /\ result = "NONE"
    /\ moves = 0
    /\ registered = TRUE
    /\ draw_handlers = 1
    /\ co_before = co
    /\ rerun = FALSE
    /\ repeated = {}

\* The operator o is the one that has just finished.
just_finished(o) == op = o /\ result = "FINISHED"

\* Running o now repeats it at once, for the first time.
first_repeat(o) == just_finished(o) /\ o \notin repeated

\* selected_verts = [v for v in bm.verts if v.select == True], as indices.
selected_verts(sel) == SelectSeq([i \in Verts |-> i], LAMBDA i : sel[i])

\* ------------------------------------------------------- host (the user)
\* The user changes the selection in edit mode.
Select ==
    /\ mode = "EDIT_MESH"
    /\ \E s \in Selections : select' = [i \in Verts |-> i \in s]
    /\ op' = "host"
    /\ result' = "NONE"
    /\ UNCHANGED <<mode, co, axis_aligner, plane_aligner, moves>>
    /\ co_before' = co
    /\ rerun' = FALSE
    /\ UNCHANGED <<repeated, registered, draw_handlers>>

\* The user switches between object mode and edit mode.
ToggleMode ==
    /\ mode' = IF mode = "EDIT_MESH" THEN "OBJECT" ELSE "EDIT_MESH"
    /\ op' = "host"
    /\ result' = "NONE"
    /\ UNCHANGED <<co, select, axis_aligner, plane_aligner, moves>>
    /\ co_before' = co
    /\ rerun' = FALSE
    /\ UNCHANGED <<repeated, registered, draw_handlers>>

\* ------------------------------------------------------------ define_axis
define_axis_poll == mode = "EDIT_MESH"

\* p2 taken from the last selected vertex instead of the second.
define_axis_execute_last(aa, c, sv) ==
    LET a1 == setattr(aa, "p1", c[sv[1]])
        a2 == setattr(a1, "p2", c[sv[Len(sv)]])
        a3 == setattr(a2, "axis", normalized(VSub(c[sv[Len(sv)]], c[sv[1]])))
        a4 == setattr(a3, "axis_defined", TRUE)
    IN  setattr(a4, "is_diplayed", TRUE)

\* The attribute name spelled is_displayed in the last assignment.
define_axis_execute_displayed(aa, c, sv) ==
    LET a1 == setattr(aa, "p1", c[sv[1]])
        a2 == setattr(a1, "p2", c[sv[2]])
        a3 == setattr(a2, "axis", normalized(VSub(c[sv[2]], c[sv[1]])))
        a4 == setattr(a3, "axis_defined", TRUE)
    IN  setattr(a4, "is_displayed", TRUE)

\* The assignments of execute to aa, from the first two selected vertices.
\* The last one creates the attribute is_diplayed.
define_axis_execute(aa, c, sv) ==
    LET a1 == setattr(aa, "p1", c[sv[1]])
        a2 == setattr(a1, "p2", c[sv[2]])
        a3 == setattr(a2, "axis", normalized(VSub(c[sv[2]], c[sv[1]])))
        a4 == setattr(a3, "axis_defined", TRUE)
    IN  setattr(a4, "is_diplayed", TRUE)

\* len(selected_verts) < 2
define_axis_too_few(sv) == Len(sv) < 2

define_axis ==
    /\ op' = "define_axis"
    /\ IF ~define_axis_poll
       THEN /\ result' = "POLL_FAILED"
            /\ UNCHANGED axis_aligner
       ELSE LET sv == selected_verts(select) IN
            IF define_axis_too_few(sv)
            THEN /\ result' = "CANCELLED"
                 /\ UNCHANGED axis_aligner
            ELSE IF ~registered
            THEN /\ result' = "ERROR"
                 /\ UNCHANGED axis_aligner
            ELSE /\ result' = "FINISHED"
                 /\ axis_aligner' = define_axis_execute(axis_aligner, co, sv)
    /\ UNCHANGED <<mode, co, select, plane_aligner, moves>>
    /\ co_before' = co
    /\ rerun' = FALSE
    /\ UNCHANGED <<repeated, registered, draw_handlers>>

\* --------------------------------------------------------- align_vertices
\* poll without the axis_defined test.
align_poll_mode_only == mode = "EDIT_MESH"

align_poll == mode = "EDIT_MESH" /\ is_True(axis_aligner, "axis_defined")

\* v.co.dot(aa.axis) instead of (v.co - aa.p1).dot(aa.axis).
align_projection_origin(aa, v) == VAdd(aa.p1, scale(dot(v, aa.axis), aa.axis))

\* projection = aa.p1 + (v.co - aa.p1).dot(aa.axis) * aa.axis
align_projection(aa, v) == VAdd(aa.p1, scale(dot(VSub(v, aa.p1), aa.axis), aa.axis))

\* The loop over selected_verts: every selected vertex takes its projection.
align_execute(aa, c, sel) ==
    [i \in Verts |-> IF sel[i] THEN align_projection(aa, c[i]) ELSE c[i]]

align_vertices ==
    /\ op' = "align_vertices"
    /\ IF mode = "EDIT_MESH" /\ ~registered
       THEN /\ result' = "ERROR"
            /\ UNCHANGED <<co, moves>>
       ELSE IF ~align_poll
       THEN /\ result' = "POLL_FAILED"
            /\ UNCHANGED <<co, moves>>
       ELSE IF Len(selected_verts(select)) < 1
            THEN /\ result' = "CANCELLED"
                 /\ UNCHANGED <<co, moves>>
            ELSE /\ first_repeat("align_vertices") \/ moves < MaxMoves
                 /\ result' = "FINISHED"
                 /\ co' = align_execute(axis_aligner, co, select)
                 /\ moves' = IF first_repeat("align_vertices")
                             THEN moves ELSE moves + 1
    /\ co_before' = co
    /\ rerun' = (result' = "FINISHED" /\ just_finished("align_vertices"))
    /\ repeated' = IF rerun' THEN repeated \cup {"align_vertices"} ELSE repeated
    /\ UNCHANGED <<mode, select, axis_aligner, plane_aligner, registered,
                   draw_handlers>>

\* ----------------------------------------------------------- display_axis
display_axis_poll == mode = "EDIT_MESH" /\ is_True(axis_aligner, "axis_defined")

display_axis ==
    /\ op' = "display_axis"
    /\ IF mode = "EDIT_MESH" /\ ~registered
       THEN /\ result' = "ERROR"
            /\ UNCHANGED axis_aligner
       ELSE IF ~display_axis_poll
       THEN /\ result' = "POLL_FAILED"
            /\ UNCHANGED axis_aligner
       ELSE /\ result' = "FINISHED"
            /\ axis_aligner' = setattr(axis_aligner, "is_displayed",
                                       py_not(axis_aligner, "is_displayed"))
    /\ UNCHANGED <<mode, co, select, plane_aligner, moves>>
    /\ co_before' = co
    /\ rerun' = FALSE
    /\ UNCHANGED <<repeated, registered, draw_handlers>>

\* ----------------------------------------------------------- define_plane
define_plane_poll == mode = "EDIT_MESH"

\* len(selected_verts) < 3
define_plane_too_few(sv) == Len(sv) < 3

\* len(selected_verts) != 3
define_plane_wrong_count(sv) == Len(sv) # 3

\* The assignments of execute to pa.  p2 is assigned twice, the second
\* time from the third selected vertex; p3 is not assigned.
define_plane_execute(pa, c, sv) ==
    LET a1 == setattr(pa, "p1", c[sv[1]])
        a2 == setattr(a1, "p2", c[sv[2]])
        a3 == setattr(a2, "p2", c[sv[3]])
        a4 == setattr(a3, "normal",
                      normalized(cross(VSub(c[sv[2]], c[sv[1]]),
                                       VSub(c[sv[3]], c[sv[1]]))))
    IN  setattr(a4, "plane_defined", TRUE)

\* execute with the points assigned to context.scene.axis_aligner.
define_plane_into_axis ==
    /\ op' = "define_plane"
    /\ IF ~define_plane_poll
       THEN /\ result' = "POLL_FAILED"
            /\ UNCHANGED <<axis_aligner, plane_aligner>>
       ELSE LET sv == selected_verts(select) IN
            IF define_plane_wrong_count(sv)
            THEN /\ result' = "CANCELLED"
                 /\ UNCHANGED <<axis_aligner, plane_aligner>>
            ELSE IF ~registered
            THEN /\ result' = "ERROR"
                 /\ UNCHANGED <<axis_aligner, plane_aligner>>
            ELSE /\ result' = "FINISHED"
                 /\ axis_aligner' = setattr(setattr(axis_aligner, "p1", co[sv[1]]),
                                            "p2", co[sv[3]])
                 /\ plane_aligner' = define_plane_execute(plane_aligner, co, sv)
    /\ UNCHANGED <<mode, co, select, moves>>
    /\ co_before' = co
    /\ rerun' = FALSE
    /\ UNCHANGED <<repeated, registered, draw_handlers>>

define_plane ==
    /\ op' = "define_plane"
    /\ IF ~define_plane_poll
       THEN /\ result' = "POLL_FAILED"
            /\ UNCHANGED plane_aligner
       ELSE LET sv == selected_verts(select) IN
            IF define_plane_wrong_count(sv)
            THEN /\ result' = "CANCELLED"
                 /\ UNCHANGED plane_aligner
            ELSE IF ~registered
            THEN /\ result' = "ERROR"
                 /\ UNCHANGED plane_aligner
            ELSE /\ result' = "FINISHED"
                 /\ plane_aligner' = define_plane_execute(plane_aligner, co, sv)
    /\ UNCHANGED <<mode, co, select, axis_aligner, moves>>
    /\ co_before' = co
    /\ rerun' = FALSE
    /\ UNCHANGED <<repeated, registered, draw_handlers>>

\* -------------------------------------------------------- apply_planarize
planarize_poll == mode = "EDIT_MESH" /\ is_True(plane_aligner, "plane_defined")

\* displacement = (vertex.co - pa.p1).dot(pa.normal) * pa.normal
\* vertex.co -= displacement
planarize_projection(pa, v) ==
    VSub(v, scale(dot(VSub(v, pa.p1), pa.normal), pa.normal))

planarize_execute(pa, c, sel) ==
    [i \in Verts |-> IF sel[i] THEN planarize_projection(pa, c[i]) ELSE c[i]]

apply_planarize ==
    /\ op' = "apply_planarize"
    /\ IF mode = "EDIT_MESH" /\ ~registered
       THEN /\ result' = "ERROR"
            /\ UNCHANGED <<co, moves>>
       ELSE IF ~planarize_poll
       THEN /\ result' = "POLL_FAILED"
            /\ UNCHANGED <<co, moves>>
       ELSE /\ first_repeat("apply_planarize") \/ moves < MaxMoves
            /\ result' = "FINISHED"
            /\ co' = planarize_execute(plane_aligner, co, select)
            /\ moves' = IF first_repeat("apply_planarize")
                        THEN moves ELSE moves + 1
    /\ co_before' = co
    /\ rerun' = (result' = "FINISHED" /\ just_finished("apply_planarize"))
    /\ repeated' = IF rerun' THEN repeated \cup {"apply_planarize"} ELSE repeated
    /\ UNCHANGED <<mode, select, axis_aligner, plane_aligner, registered,
                   draw_handlers>>

\* ---------------------------------------------------------------- overlay
\* draw_axis draws the six overlay points only under this condition:
\* aa.axis_defined == True and aa.is_displayed == True.  Reading
\* bpy.context.scene.axis_aligner raises while the addon is unregistered,
\* and the except branch draws nothing.
draw_axis_visible ==
    /\ draw_handlers >= 1
    /\ registered
    /\ is_True(axis_aligner, "axis_defined")
    /\ is_True(axis_aligner, "is_displayed")

\* -------------------------------------------------------------- lifecycle
\* unregister(): the classes are unregistered and the two Scene attributes
\* deleted.  What was assigned to the classes stays with them, and the draw
\* handler stays installed.
unregister ==
    /\ registered
    /\ registered' = FALSE
    /\ op' = "unregister"
    /\ result' = "NONE"
    /\ UNCHANGED <<mode, co, select, axis_aligner, plane_aligner, moves,
                   draw_handlers, repeated>>
    /\ co_before' = co
    /\ rerun' = FALSE

\* register() after an unregister(): the Scene attributes are bound to the
\* same classes again and draw_axis is added as a draw handler once more.
register ==
    /\ ~registered
    /\ draw_handlers < MaxHandlers
    /\ registered' = TRUE
    /\ draw_handlers' = draw_handlers + 1
    /\ op' = "register"
    /\ result' = "NONE"
    /\ UNCHANGED <<mode, co, select, axis_aligner, plane_aligner, moves,
                   repeated>>
    /\ co_before' = co
    /\ rerun' = FALSE

\* ---------------------------------------------------------- specification
Next ==
    \/ Select
    \/ ToggleMode
    \/ define_axis
    \/ align_vertices
    \/ display_axis
    \/ define_plane
    \/ apply_planarize
    \/ unregister
    \/ register

Spec == Init /\ [][Next]_vars

\* ================================================================ claims
\* The indices of the selected vertices, in the order the operators see them.
sv == selected_verts(select)

\* An operator whose poll passed: execute ran and returned.
Ran(o) == op' = o /\ result' \in {"FINISHED", "CANCELLED"}

\* The axis reference is defined.
AxisDefined(aa) == is_True(aa, "axis_defined")

\* The plane reference is defined.
PlaneDefined(pa) == is_True(pa, "plane_defined")

\* Rounding error: two numbers of magnitude below 2^t are equal up to
\* rounding when they differ by less than 2^(t - RoundingBits), sixteen
\* units in the last place of a number of that magnitude.
RoundingBits == Significand - 4

\* The least t with every coordinate of the vectors in s below 2^t.
Magnitude(s) ==
    LET tops == { Top(f) : f \in { a[k] : a \in s, k \in 1..3 } \ {Zero} }
    IN  CHOOSE t \in tops : \A u \in tops : u <= t

\* The vectors a and b are equal up to rounding, at the magnitude of a, b
\* and ref.
Near(a, b, ref) ==
    \A k \in 1..3 :
        \/ a[k] = b[k]
        \/ Top(FSub(a[k], b[k])) <= Magnitude({a, b, ref}) - RoundingBits

\* A vector that is non-zero and of length one (up to rounding).
IsUnit(a) == a # ZeroVector /\ Near(<<Single(dot(a, a)), Zero, Zero>>, Vector(1, 0, 0), ZeroVector)

\* The attributes of the axis record that make up the reference.
AxisRef(aa) ==
    [a \in DOMAIN aa \cap {"axis_defined", "p1", "p2", "axis"} |-> aa[a]]

\* The point p1 + dot(v - p1, a) * a of the line through p1 along a.
FootOnLine(p1, a, v) == VAdd(p1, scale(dot(VSub(v, p1), a), a))

\* v lies on the line through p1 and p2 (the single point p1 when p2 = p1):
\* it is p1 or p2, or v - p1 and p2 - p1 have cross product zero.
OnAxisLine(aa, v) ==
    /\ \/ v \in {aa.p1, aa.p2}
       \/ cross(VSub(v, aa.p1), VSub(aa.p2, aa.p1)) = ZeroVector
    /\ aa.p2 = aa.p1 => v = aa.p1

\* v lies on the plane through pa.p1 with normal pa.normal: it is one of
\* the points stored in pa, or v - p1 is orthogonal to the normal.
OnPlane(pa, v) ==
    \/ v \in {pa.p1, pa.p2}
    \/ Single(dot(VSub(v, pa.p1), pa.normal)) = Zero

\* C1: align executes only while the axis reference is defined and planarize
\* only while the plane reference is defined; a reference becomes defined
\* only by a successful define of its own kind; an operator refused by its
\* poll, or cancelled, moves no vertex.
C1_DefinedGatesApply ==
    [][ /\ Ran("align_vertices") => AxisDefined(axis_aligner)
        /\ Ran("apply_planarize") => PlaneDefined(plane_aligner)
        /\ (~AxisDefined(axis_aligner) /\ AxisDefined(axis_aligner'))
              => (op' = "define_axis" /\ result' = "FINISHED")
        /\ (~PlaneDefined(plane_aligner) /\ PlaneDefined(plane_aligner'))
              => (op' = "define_plane" /\ result' = "FINISHED")
        /\ result' \in {"POLL_FAILED", "CANCELLED"} => co' = co ]_vars

\* C1 witness: align was refused in edit mode, with vertices selected,
\* because no axis has been defined.
C1_Witness ==
    /\ op = "align_vertices" /\ result = "POLL_FAILED"
    /\ mode = "EDIT_MESH" /\ sv # <<>>
    /\ ~AxisDefined(axis_aligner)

\* C2: after a successful define_plane, p1, p2 and p3 are the first, second
\* and third selected points, normal is derived from them and the plane is
\* defined.
C2_DefinePlaneStoresThreePoints ==
    (op = "define_plane" /\ result = "FINISHED") =>
        /\ plane_aligner.p1 = co[sv[1]]
        /\ plane_aligner.p2 = co[sv[2]]
        /\ "p3" \in DOMAIN plane_aligner
        /\ plane_aligner.p3 = co[sv[3]]
        /\ plane_aligner.normal =
              normalized(cross(VSub(co[sv[2]], co[sv[1]]),
                               VSub(co[sv[3]], co[sv[1]])))
        /\ PlaneDefined(plane_aligner)

\* C3: define_axis with fewer than two selected points is cancelled and
\* leaves the axis record as it was; with two or more it finishes with p1
\* and p2 the first two selected points, axis derived from them, defined.
C3_DefineAxisSelection ==
    [][ Ran("define_axis") =>
          IF Len(sv) < 2
          THEN result' = "CANCELLED" /\ axis_aligner' = axis_aligner
          ELSE /\ result' = "FINISHED"
               /\ axis_aligner'.p1 = co[sv[1]]
               /\ axis_aligner'.p2 = co[sv[2]]
               /\ axis_aligner'.axis = normalized(VSub(co[sv[2]], co[sv[1]]))
               /\ AxisDefined(axis_aligner') ]_vars

\* C3 witness: define_axis finished on three or more selected points, the
\* third of which differs from the second.
C3_Witness ==
    /\ op = "define_axis" /\ result = "FINISHED"
    /\ Len(sv) >= 3
    /\ co[sv[3]] # co[sv[2]]
    /\ axis_aligner.p2 = co[sv[2]]

\* C4: define_plane is cancelled whenever the number of selected points is
\* not three, and a cancelled define_plane leaves the plane record as it was.
C4_DefinePlaneExactlyThree ==
    [][ Ran("define_plane") =>
          /\ Len(sv) # 3 => result' = "CANCELLED"
          /\ result' = "CANCELLED" => plane_aligner' = plane_aligner ]_vars

\* C4 witness: define_plane was cancelled on four selected points while a
\* plane was already defined.
C4_Witness ==
    /\ op = "define_plane" /\ result = "CANCELLED"
    /\ Len(sv) = 4
    /\ PlaneDefined(plane_aligner)

\* C5: a defined axis reference has a non-zero axis of length one, and a
\* define_axis that finished did not take two equal points.
C5_DefinedAxisIsUnit ==
    /\ AxisDefined(axis_aligner) => IsUnit(axis_aligner.axis)
    /\ (op = "define_axis" /\ result = "FINISHED")
          => axis_aligner.p1 # axis_aligner.p2

\* C6: a defined plane reference has a non-zero normal: define_plane on
\* collinear points does not define the plane.
C6_DefinedPlaneHasNormal ==
    PlaneDefined(plane_aligner) => plane_aligner.normal # ZeroVector

\* C7: align with at least one selected vertex finishes and puts every
\* selected vertex v at p1 + dot(v - p1, axis) * axis of the stored
\* reference, leaving the unselected ones; with p1 = (0,0,0), p2 = (2,0,0)
\* the vertex (1,1,1) goes to (1,0,0); with no vertex selected it is
\* cancelled and moves nothing.
C7_AlignProjects ==
    [][ Ran("align_vertices") =>
          IF sv = <<>>
          THEN result' = "CANCELLED" /\ co' = co
          ELSE /\ result' = "FINISHED"
               /\ \A i \in Verts :
                    co'[i] = IF select[i]
                             THEN FootOnLine(axis_aligner.p1,
                                             axis_aligner.axis, co[i])
                             ELSE co[i]
               /\ \A i \in Verts :
                    ( /\ select[i]
                      /\ co[i] = Vector(1, 1, 1)
                      /\ axis_aligner.p1 = Vector(0, 0, 0)
                      /\ axis_aligner.p2 = Vector(2, 0, 0)
                      /\ axis_aligner.axis = normalized(Vector(2, 0, 0)) )
                    => co'[i] = Vector(1, 0, 0) ]_vars

\* C7 witness: with the axis through (0,0,0) and (2,0,0), align has moved
\* the selected vertex 3 from (1,1,1) to (1,0,0) and left the unselected
\* vertex 4 at (1,0,1).
C7_Witness ==
    /\ op = "align_vertices" /\ result = "FINISHED"
    /\ axis_aligner.p1 = Vector(0, 0, 0)
    /\ axis_aligner.p2 = Vector(2, 0, 0)
    /\ select[3] /\ co_before[3] = Vector(1, 1, 1) /\ co[3] = Vector(1, 0, 0)
    /\ ~select[4] /\ co[4] = Vector(1, 0, 1)

\* C8 as stated: align run again right after align, and planarize right
\* after planarize (same selection, same reference), leaves every vertex
\* exactly where it was; a vertex already on the axis line, or on the plane,
\* is not moved.
C8_ApplyIdempotent ==
    [][ /\ (op = "align_vertices" /\ result = "FINISHED"
              /\ op' = "align_vertices") => co' = co
        /\ (op = "apply_planarize" /\ result = "FINISHED"
              /\ op' = "apply_planarize") => co' = co
        /\ (op' = "align_vertices" /\ result' = "FINISHED") =>
              \A i \in Verts :
                  OnAxisLine(axis_aligner, co[i]) => co'[i] = co[i]
        /\ (op' = "apply_planarize" /\ result' = "FINISHED") =>
              \A i \in Verts :
                  OnPlane(plane_aligner, co[i]) => co'[i] = co[i] ]_vars

\* C8 amended: align run again right after align, and planarize right after
\* planarize, leaves every vertex where it was up to rounding; a vertex
\* already on the axis line, or on the plane, is moved by at most rounding.
C8_IdempotentUpToRounding ==
    [][ /\ (op = "align_vertices" /\ result = "FINISHED"
              /\ op' = "align_vertices" /\ result' = "FINISHED") =>
              \A i \in Verts : Near(co'[i], co[i], axis_aligner.p1)
        /\ (op = "apply_planarize" /\ result = "FINISHED"
              /\ op' = "apply_planarize" /\ result' = "FINISHED") =>
              \A i \in Verts : Near(co'[i], co[i], plane_aligner.p1)
        /\ (op' = "align_vertices" /\ result' = "FINISHED") =>
              \A i \in Verts :
                  OnAxisLine(axis_aligner, co[i])
                      => Near(co'[i], co[i], axis_aligner.p1)
        /\ (op' = "apply_planarize" /\ result' = "FINISHED") =>
              \A i \in Verts :
                  OnPlane(plane_aligner, co[i])
                      => Near(co'[i], co[i], plane_aligner.p1) ]_vars

\* C8 witness: planarize has been run twice in a row earlier, align has
\* just been run twice in a row, and its second run has moved a selected
\* vertex, by no more than rounding.
C8_Witness ==
    /\ "apply_planarize" \in repeated
    /\ op = "align_vertices" /\ result = "FINISHED" /\ rerun
    /\ \E i \in Verts :
          /\ select[i]
          /\ co[i] # co_before[i]
          /\ Near(co[i], co_before[i], axis_aligner.p1)

\* C9: the axis reference (defined, p1, p2, axis) changes only in
\* define_axis and the plane record only in define_plane; a defined
\* reference stays defined.
C9_ReferencesOwnedByDefine ==
    [][ /\ AxisRef(axis_aligner') # AxisRef(axis_aligner)
              => op' = "define_axis"
        /\ plane_aligner' # plane_aligner => op' = "define_plane"
        /\ AxisDefined(axis_aligner) => AxisDefined(axis_aligner')
        /\ PlaneDefined(plane_aligner) => PlaneDefined(plane_aligner') ]_vars

\* C9 witness: planarize has run with both references defined, and the
\* vertices no longer hold the pair of points the axis was captured from.
C9_Witness ==
    /\ op = "apply_planarize" /\ result = "FINISHED"
    /\ AxisDefined(axis_aligner) /\ PlaneDefined(plane_aligner)
    /\ ~ \E i, j \in Verts :
            i < j /\ co[i] = axis_aligner.p1 /\ co[j] = axis_aligner.p2

\* The attribute is_displayed of aa and of bb differ: assigned in one only,
\* or assigned different values.
DisplayedDiffers(aa, bb) ==
    \/ ("is_displayed" \in DOMAIN aa) # ("is_displayed" \in DOMAIN bb)
    \/ /\ "is_displayed" \in DOMAIN aa
       /\ "is_displayed" \in DOMAIN bb
       /\ aa.is_displayed # bb.is_displayed

\* C10: is_displayed changes only in a display_axis that passed its poll
\* (axis defined), which sets it to "not is_displayed"; define_axis leaves
\* it as it is; the overlay is not visible initially and becomes visible
\* only by display_axis, or by a register() that brings back, after an
\* unregister(), the overlay display_axis had switched on.
C10_DisplayOnlyByDisplayAxis ==
    /\ ~draw_axis_visible
    /\ [][ /\ DisplayedDiffers(axis_aligner', axis_aligner)
                => (op' = "display_axis" /\ result' = "FINISHED")
           /\ (op' = "display_axis" /\ result' = "FINISHED")
                => /\ AxisDefined(axis_aligner)
                   /\ "is_displayed" \in DOMAIN axis_aligner'
                   /\ axis_aligner'.is_displayed =
                         py_not(axis_aligner, "is_displayed")
           /\ (op' = "display_axis" /\ result' = "POLL_FAILED"
                /\ mode = "EDIT_MESH") => ~AxisDefined(axis_aligner)
           /\ (~draw_axis_visible /\ draw_axis_visible')
                => \/ op' = "display_axis"
                   \/ /\ op' = "register"
                      /\ is_True(axis_aligner, "is_displayed") ]_vars

\* C10 witness: define_axis has finished, is_displayed has not been
\* assigned and the overlay is not visible.
C10_Witness ==
    /\ op = "define_axis" /\ result = "FINISHED"
    /\ AxisDefined(axis_aligner)
    /\ "is_diplayed" \in DOMAIN axis_aligner
    /\ "is_displayed" \notin DOMAIN axis_aligner
    /\ ~draw_axis_visible

TypeOK ==
    /\ mode \in {"EDIT_MESH", "OBJECT"}
    /\ select \in [Verts -> BOOLEAN]
    /\ DOMAIN axis_aligner \subseteq VertexAxisAligner \cup {"is_diplayed"}
    /\ DOMAIN plane_aligner \subseteq VertexPlaneAligner
    /\ moves \in 0..MaxMoves
    /\ rerun \in BOOLEAN
    /\ repeated \subseteq {"align_vertices", "apply_planarize"}
    /\ registered \in BOOLEAN
    /\ draw_handlers \in 1..MaxHandlers
    /\ result \in {"NONE", "FINISHED", "CANCELLED", "POLL_FAILED", "ERROR"}
====
